---- MODULE Spec2Model ----
(***************************************************************************)
(* A model of the LINE duty-roster bot (src/main.py): the rotation of      *)
(* names through the eight weekly roles, the duplicate resolver, the       *)
(* special-week switch, the message composer, and the weekly job with its  *)
(* two files (state.json, this_week.json) as run by the scheduler thread   *)
(* and by the main thread at start-up.                                     *)
(*                                                                         *)
(* Python lists are sequences (index i of the source is i + 1 here).  A    *)
(* roster is whatever load_csv_list returns: any list of non-empty names,  *)
(* the same name possibly listed more than once.                           *)
(***************************************************************************)
EXTENDS Integers, Sequences, FiniteSets, TLC

\* ------------------------------------------------------------------ bounds
MaxRoster == 3      \* longest roster (names in one CSV file)
MaxCursor == 4      \* largest cursor read from state.json (may exceed a roster)
MaxCount == 3       \* largest count handed to the rotator on its own
MaxRuns == 2        \* weekly_job runs of the scheduler thread
MaxTicks == 1       \* midnights that pass while the mode is queried
MaxQueries == 2     \* text messages the webhook receives

Names == {"A", "B", "C"}
None == "None"
Rosters == UNION {[1..n -> Names] : n \in 0..MaxRoster}
MaxCalls == MaxRoster + 1

\* ------------------------------------------------------- role configuration
KEYS == <<"hymn", "bread_bro", "bread_sis", "baking", "sharing", "pianist", "topic", "url">>
Roles == {KEYS[i] : i \in 1..Len(KEYS)}

LIST_CONFIG ==
    [k \in Roles |-> [count |-> IF k \in {"hymn", "bread_bro", "bread_sis", "pianist"} THEN 2 ELSE 1]]

DEFAULT_STATE == [indexes |-> [k \in Roles |-> 0], override |-> None]

\* a file is known by its kind; its content counts when the kind is "ok"
StateAbsent == [kind |-> "absent", state |-> DEFAULT_STATE]
StateCorrupt == [kind |-> "corrupt", state |-> DEFAULT_STATE]
StateOk(s) == [kind |-> "ok", state |-> s]
WeekAbsent == [kind |-> "absent", text |-> <<>>]
WeekOk(m) == [kind |-> "ok", text |-> m]

VARIABLES
    rosters,        \* data/<role>.csv: role -> list of names
    today,          \* datetime.now(): [month, day, weekday], weekday 0 = Monday
    stateFile,      \* data/state.json: absent, corrupt (no JSON), or ok with a state
    thisWeekFile,   \* data/this_week.json: absent, or ok with {"text": message}
    pc,             \* thread -> position in its code
    st,             \* thread -> weekly_job's local `state` / `new_state`
    msg,            \* thread -> weekly_job's local `message`
    runs,           \* weekly_job runs the scheduler has started
    io,             \* thread -> the file writes and pushes of its current weekly_job
    done,           \* weekly_job runs that reached their end
    state0,         \* the content of data/state.json when the process started
    rot,            \* the rotator called on its own: arguments and result
    cmp,            \* compose_message called on its own: arguments and result
    mode,           \* is_special_week called on its own: result
    bmp,            \* bump_one called on its own: arguments and result
    web             \* handle_message: its position, its locals and what it sent

sysvars == <<rosters, today, stateFile, thisWeekFile, pc, st, msg, runs, io, done, state0, web>>
vars == <<rosters, today, stateFile, thisWeekFile, pc, st, msg, runs, io, done, state0, rot, cmp, mode,
         bmp, web>>

\* ----------------------------------------------------------------- helpers
Range(s) == {s[i] : i \in 1..Len(s)}
Min(S) == CHOOSE x \in S : \A y \in S : x <= y

\* list.index(x): 0-based position of the first occurrence
index(lst, x) == Min({i \in 1..Len(lst) : lst[i] = x}) - 1

load_csv_list(key) == rosters[key]

\* ----------------------------------------------------------------- rotator
next_items_same(lst, start_idx, n) ==
    [i \in 1..n |-> lst[(start_idx % Len(lst)) + 1]]

\* the picks step over every other position
next_items_stride(lst, start_idx, n) ==
    [i \in 1..n |-> lst[((start_idx + 2 * (i - 1)) % Len(lst)) + 1]]

next_items(lst, start_idx, n) ==
    [i \in 1..n |-> lst[((start_idx + (i - 1)) % Len(lst)) + 1]]

advance_index_by_one(current, step, length) == (current + 1) % length

\* the new cursor is not wrapped
advance_index_no_wrap(current, step, length) == current + step

advance_index(current, step, length) == (current + step) % length

\* the body of get_list_with_advance on a roster, a cursor and a count
select_always_advance(names, idx, count, advance) ==
    IF names = <<>>
    THEN [picked |-> <<>>, idx |-> idx]
    ELSE [picked |-> next_items(names, idx, count),
          idx |-> advance_index(idx, count, Len(names))]

select(names, idx, count, advance) ==
    IF names = <<>>
    THEN [picked |-> <<>>, idx |-> idx]
    ELSE [picked |-> next_items(names, idx, count),
          idx |-> IF advance THEN advance_index(idx, count, Len(names)) ELSE idx]

get_list_with_advance(key, state, advance) ==
    LET r == select(load_csv_list(key), state.indexes[key], LIST_CONFIG[key].count, advance)
    IN  [picked |-> r.picked, state |-> [state EXCEPT !.indexes[key] = r.idx]]

\* ------------------------------------------------------ duplicate resolver
\* the scan stops one candidate short of the full wrap
bump_one_short(name_list, names_pool, avoid_set) ==
    IF names_pool = <<>>
    THEN None
    ELSE LET L == Len(names_pool)
             cur == index(names_pool, name_list[1])
             ok == {step \in 1..(L - 2) :
                      /\ names_pool[((cur + step) % L) + 1] \notin avoid_set
                      /\ names_pool[((cur + step) % L) + 1] \notin Range(name_list)}
         IN  IF ok = {} THEN name_list[1] ELSE names_pool[((cur + Min(ok)) % L) + 1]

\* the scan does not look at avoid_set
bump_one_next(name_list, names_pool, avoid_set) ==
    IF names_pool = <<>>
    THEN None
    ELSE LET L == Len(names_pool)
             cur == index(names_pool, name_list[1])
             ok == {step \in 1..(L - 1) :
                      names_pool[((cur + step) % L) + 1] \notin Range(name_list)}
         IN  IF ok = {} THEN name_list[1] ELSE names_pool[((cur + Min(ok)) % L) + 1]

\* no candidate: nothing is returned
bump_one_none(name_list, names_pool, avoid_set) ==
    IF names_pool = <<>>
    THEN None
    ELSE LET L == Len(names_pool)
             cur == index(names_pool, name_list[1])
             ok == {step \in 1..(L - 1) :
                      /\ names_pool[((cur + step) % L) + 1] \notin avoid_set
                      /\ names_pool[((cur + step) % L) + 1] \notin Range(name_list)}
         IN  IF ok = {} THEN None ELSE names_pool[((cur + Min(ok)) % L) + 1]

\* the scan starts at the head of the pool, not at the conflicting name
bump_one_from_start(name_list, names_pool, avoid_set) ==
    IF names_pool = <<>>
    THEN None
    ELSE LET L == Len(names_pool)
             ok == {step \in 1..(L - 1) :
                      /\ names_pool[(step % L) + 1] \notin avoid_set
                      /\ names_pool[(step % L) + 1] \notin Range(name_list)}
         IN  IF ok = {} THEN name_list[1] ELSE names_pool[(Min(ok) % L) + 1]

\* for step in range(1, len(names_pool)): the first candidate after the
\* conflicting name's first position that is neither avoided nor selected
bump_one(name_list, names_pool, avoid_set) ==
    IF names_pool = <<>>
    THEN None
    ELSE LET L == Len(names_pool)
             cur == index(names_pool, name_list[1])
             ok == {step \in 1..(L - 1) :
                      /\ names_pool[((cur + step) % L) + 1] \notin avoid_set
                      /\ names_pool[((cur + step) % L) + 1] \notin Range(name_list)}
         IN  IF ok = {} THEN name_list[1] ELSE names_pool[((cur + Min(ok)) % L) + 1]

\* for i, person in enumerate(bread_bro): slots i.. of the loop, each seeing
\* the replacements made in the slots before it
RECURSIVE bro_loop(_, _, _, _)
bro_loop(hymn, bread_bro, pool_bro, i) ==
    IF i > Len(bread_bro)
    THEN bread_bro
    ELSE IF bread_bro[i] \in Range(hymn)
         THEN bro_loop(hymn,
                       [bread_bro EXCEPT ![i] = bump_one(<<bread_bro[i]>>, pool_bro,
                                                         Range(hymn) \cup Range(bread_bro))],
                       pool_bro, i + 1)
         ELSE bro_loop(hymn, bread_bro, pool_bro, i + 1)

resolve_duplicates(hymn, bread_bro, sharing, topic, pianist) ==
    [hymn |-> hymn,
     bread_bro |-> bro_loop(hymn, bread_bro, load_csv_list("bread_bro"), 1),
     sharing |-> IF sharing # <<>> /\ topic # <<>> /\ sharing[1] = topic[1]
                 THEN [sharing EXCEPT ![1] = bump_one(sharing, load_csv_list("sharing"),
                                                      Range(topic))]
                 ELSE sharing,
     topic |-> topic,
     pianist |-> IF Len(pianist) = 2 /\ pianist[1] = pianist[2]
                 THEN [pianist EXCEPT ![2] = bump_one(<<pianist[2]>>, load_csv_list("pianist"),
                                                      {pianist[1]})]
                 ELSE pianist]

\* ---------------------------------------------------------- special week
is_first_monday_any_month(now) ==
    1 <= now.day /\ now.day <= 7 /\ now.weekday = 0

is_first_monday_odd_month(now) ==
    now.month % 2 = 1 /\ 1 <= now.day /\ now.day <= 7 /\ now.weekday = 0

\* the override 'normal' is not looked at
is_special_week_no_normal(state) ==
    IF state.override = "special" THEN TRUE
    ELSE is_first_monday_odd_month(today)

is_special_week(state) ==
    IF state.override = "special" THEN TRUE
    ELSE IF state.override = "normal" THEN FALSE
    ELSE is_first_monday_odd_month(today)

\* ------------------------------------------------------------- the message
\* A text is the list of its lines, a line its label and the tokens of its
\* value: names joined by the full-width space are the list of the names, the
\* empty string is the empty list, (Sat) and (Sun) stand for the two day marks.
LABELS == <<"hymn:", "bread (brothers):", "bread (sisters):", "baking:", "sharing:",
            "pianist:", "topic:", "title:">>

first_or_empty(lst) == IF lst # <<>> THEN <<lst[1]>> ELSE <<>>

\* the lines of a role without names are left out
render_skip_empty(special, sel) ==
    IF special
    THEN <<[label |-> LABELS[5], value |-> first_or_empty(sel.sharing)],
           [label |-> LABELS[6], value |-> <<"(Sat)">> \o first_or_empty(sel.pianist)]>>
    ELSE SelectSeq(
           <<[label |-> LABELS[1], value |-> sel.hymn],
             [label |-> LABELS[2], value |-> sel.bread_bro],
             [label |-> LABELS[3], value |-> sel.bread_sis],
             [label |-> LABELS[4], value |-> first_or_empty(sel.baking)],
             [label |-> LABELS[5], value |-> first_or_empty(sel.sharing)],
             [label |-> LABELS[6], value |-> IF Len(sel.pianist) = 2
                                             THEN <<"(Sat)", sel.pianist[1], "(Sun)", sel.pianist[2]>>
                                             ELSE <<>>],
             [label |-> LABELS[7], value |-> first_or_empty(sel.topic)],
             [label |-> LABELS[8], value |-> first_or_empty(sel.url)]>>,
           LAMBDA line : line.value # <<>>)

\* the two f-strings of compose_message
render(special, sel) ==
    IF special
    THEN <<[label |-> LABELS[5], value |-> first_or_empty(sel.sharing)],
           [label |-> LABELS[6], value |-> <<"(Sat)">> \o first_or_empty(sel.pianist)]>>
    ELSE <<[label |-> LABELS[1], value |-> sel.hymn],
           [label |-> LABELS[2], value |-> sel.bread_bro],
           [label |-> LABELS[3], value |-> sel.bread_sis],
           [label |-> LABELS[4], value |-> first_or_empty(sel.baking)],
           [label |-> LABELS[5], value |-> first_or_empty(sel.sharing)],
           [label |-> LABELS[6], value |-> IF Len(sel.pianist) = 2
                                           THEN <<"(Sat)", sel.pianist[1], "(Sun)", sel.pianist[2]>>
                                           ELSE <<>>],
           [label |-> LABELS[7], value |-> first_or_empty(sel.topic)],
           [label |-> LABELS[8], value |-> first_or_empty(sel.url)]>>

\* str.join raises TypeError on a None among the names it joins
join_fails(special, sel) ==
    ~special /\ None \in (Range(sel.hymn) \cup Range(sel.bread_bro) \cup Range(sel.bread_sis))

\* a substituted sharing name uses up one more turn of the sharing cursor
compose_message_turn(state, advance) ==
    LET g1 == get_list_with_advance("hymn", state, advance)
        g2 == get_list_with_advance("bread_bro", g1.state, advance)
        g3 == get_list_with_advance("bread_sis", g2.state, advance)
        g4 == get_list_with_advance("baking", g3.state, advance)
        g5 == get_list_with_advance("sharing", g4.state, advance)
        g6 == get_list_with_advance("pianist", g5.state, advance)
        g7 == get_list_with_advance("topic", g6.state, advance)
        g8 == get_list_with_advance("url", g7.state, advance)
        res == resolve_duplicates(g1.picked, g2.picked, g5.picked, g7.picked, g6.picked)
        sel == [hymn |-> res.hymn, bread_bro |-> res.bread_bro, bread_sis |-> g3.picked,
                baking |-> g4.picked, sharing |-> res.sharing, pianist |-> res.pianist,
                topic |-> res.topic, url |-> g8.picked]
        special == is_special_week(g8.state)
    IN  [err |-> join_fails(special, sel),
         msg |-> IF join_fails(special, sel) THEN <<>> ELSE render(special, sel),
         state |-> IF advance /\ res.sharing # g5.picked
                   THEN [g8.state EXCEPT !.indexes["sharing"] =
                            advance_index(@, 1, Len(load_csv_list("sharing")))]
                   ELSE g8.state,
         sel |-> sel]

compose_message(state, advance) ==
    LET g1 == get_list_with_advance("hymn", state, advance)
        g2 == get_list_with_advance("bread_bro", g1.state, advance)
        g3 == get_list_with_advance("bread_sis", g2.state, advance)
        g4 == get_list_with_advance("baking", g3.state, advance)
        g5 == get_list_with_advance("sharing", g4.state, advance)
        g6 == get_list_with_advance("pianist", g5.state, advance)
        g7 == get_list_with_advance("topic", g6.state, advance)
        g8 == get_list_with_advance("url", g7.state, advance)
        res == resolve_duplicates(g1.picked, g2.picked, g5.picked, g7.picked, g6.picked)
        sel == [hymn |-> res.hymn, bread_bro |-> res.bread_bro, bread_sis |-> g3.picked,
                baking |-> g4.picked, sharing |-> res.sharing, pianist |-> res.pianist,
                topic |-> res.topic, url |-> g8.picked]
        special == is_special_week(g8.state)
    IN  [err |-> join_fails(special, sel),
         msg |-> IF join_fails(special, sel) THEN <<>> ELSE render(special, sel),
         state |-> g8.state,
         sel |-> sel]

\* --------------------------------------------------- the rotator on its own
RotIdle == [names |-> <<>>, count |-> 1, start |-> 0, idx |-> 0, prev |-> 0,
            picked |-> <<>>, calls |-> 0, log |-> <<>>]
CmpIdle == [called |-> FALSE, state |-> DEFAULT_STATE, advance |-> FALSE,
            out |-> [err |-> FALSE, msg |-> <<>>, state |-> DEFAULT_STATE,
                     sel |-> [k \in Roles |-> <<>>]]]
ModeIdle == [called |-> FALSE, state |-> DEFAULT_STATE,
             at |-> [month |-> 1, day |-> 1, weekday |-> 0], ret |-> FALSE, ticks |-> 0,
             prev |-> [called |-> FALSE, at |-> [month |-> 1, day |-> 1, weekday |-> 0],
                       ret |-> FALSE]]
BmpIdle == [name_list |-> <<>>, pool |-> <<>>, avoid |-> {}, called |-> FALSE, ret |-> None]
WebIdle == [pc |-> "idle", cmd |-> "", state |-> DEFAULT_STATE, week |-> WeekAbsent,
            n |-> 0, sent |-> <<>>]

SysIdle ==
    /\ rosters = [k \in Roles |-> <<>>]
    /\ today = [month |-> 1, day |-> 1, weekday |-> 0]
    /\ stateFile = StateAbsent
    /\ thisWeekFile = WeekAbsent
    /\ pc = [t \in {"main", "sched"} |-> "off"]
    /\ st = [t \in {"main", "sched"} |-> DEFAULT_STATE]
    /\ msg = [t \in {"main", "sched"} |-> <<>>]
    /\ runs = 0
    /\ io = [t \in {"main", "sched"} |-> <<>>]
    /\ done = 0
    /\ state0 = StateAbsent
    /\ web = WebIdle

InitRotate ==
    /\ SysIdle
    /\ bmp = BmpIdle
    /\ cmp = CmpIdle
    /\ mode = ModeIdle
    /\ \E names \in Rosters, count \in 1..MaxCount, c \in 0..MaxCursor :
          rot = [names |-> names, count |-> count, start |-> c, idx |-> c, prev |-> c,
                 picked |-> <<>>, calls |-> 0, log |-> <<>>]

\* one advancing call: picked, cursor = select(roster, cursor, count)
RotSelect ==
    /\ rot.calls < MaxCalls
    /\ LET r == select(rot.names, rot.idx, rot.count, TRUE)
       IN  rot' = [rot EXCEPT !.picked = r.picked, !.prev = rot.idx, !.idx = r.idx,
                              !.calls = @ + 1, !.log = @ \o r.picked]
    /\ UNCHANGED <<sysvars, cmp, mode, bmp>>

NextRotate == RotSelect

SpecRotate == InitRotate /\ [][NextRotate]_vars

\* C1: after an advancing call on a non-empty roster of length L with cursor c
\* and count n, exactly n names were returned, the i-th (from 0) being
\* roster[(c + i) mod L], each a member of the roster, and the cursor is
\* (c + n) mod L.
C1_SelectCyclic ==
    (rot.calls >= 1 /\ rot.names # <<>>) =>
        LET L == Len(rot.names) IN
        /\ Len(rot.picked) = rot.count
        /\ \A i \in 0..(rot.count - 1) :
              /\ rot.picked[i + 1] = rot.names[((rot.prev + i) % L) + 1]
              /\ rot.picked[i + 1] \in Range(rot.names)
        /\ rot.idx = (rot.prev + rot.count) % L

\* a call with more slots than names, from a cursor beyond the roster's end
C1_Witness ==
    /\ rot.calls >= 1
    /\ Len(rot.names) = 2
    /\ rot.count = 3
    /\ rot.prev >= 2
    /\ rot.picked[1] = rot.picked[3]
    /\ rot.picked[1] # rot.picked[2]

CeilDiv(a, b) == (a + b - 1) \div b

RECURSIVE Gcd(_, _)
Gcd(a, b) == IF b = 0 THEN a ELSE Gcd(b, a % b)

\* C2 as stated, for a roster of distinct names, the counts LIST_CONFIG has
\* (1 and 2) and a starting cursor inside the roster: after ceil(L/n) advancing
\* calls the cursor is the starting cursor again.
C2_Original ==
    (/\ rot.names # <<>>
     /\ Cardinality(Range(rot.names)) = Len(rot.names)
     /\ rot.count \in {LIST_CONFIG[k].count : k \in Roles}
     /\ rot.start < Len(rot.names)
     /\ rot.calls = CeilDiv(Len(rot.names), rot.count)) =>
        rot.idx = rot.start

\* C2 as amended: from a cursor c in [0, L), after ceil(L/n) advancing calls the
\* cursor is c again exactly when L divides n * ceil(L/n), and after
\* L / gcd(L, n) advancing calls it is c again in every case.
C2_Period ==
    (rot.names # <<>> /\ rot.start < Len(rot.names)) =>
        LET L == Len(rot.names)
            n == rot.count
        IN  /\ rot.calls = CeilDiv(L, n) =>
                  (rot.idx = rot.start <=> (n * CeilDiv(L, n)) % L = 0)
            /\ rot.calls = L \div Gcd(L, n) => rot.idx = rot.start
            /\ (rot.calls >= 1 /\ rot.calls < L \div Gcd(L, n)) => rot.idx # rot.start

\* three names taken two at a time: back at the start after three calls, not two
C2_Witness ==
    /\ Len(rot.names) = 3
    /\ rot.count = 2
    /\ rot.start < 3
    /\ rot.calls = 3
    /\ rot.idx = rot.start

\* C14: after an advancing call on a non-empty roster of length L the cursor is
\* in 0..L-1 whatever it was before the call, a value of L or more included;
\* on an empty roster the call leaves the cursor as it was.
C14_CursorInRange ==
    rot.calls >= 1 =>
        IF rot.names = <<>>
        THEN rot.idx = rot.prev /\ rot.idx = rot.start /\ rot.picked = <<>>
        ELSE rot.idx \in 0..(Len(rot.names) - 1)

\* a cursor left over from a longer roster is brought back into range
C14_Witness ==
    /\ rot.calls = 1
    /\ Len(rot.names) = 2
    /\ rot.prev = MaxCursor
    /\ rot.idx < 2

\* the number of entries of a list that are x
Occurrences(lst, x) == Cardinality({i \in DOMAIN lst : lst[i] = x})

\* C19: on a roster of length L >= 1 that does not change, L advancing calls in
\* a row bring the cursor to its starting value modulo L, which is the starting
\* value itself whenever that was in 0..L-1, and between them they select every
\* position of the roster exactly count times: a name is selected count times
\* for each position of the roster that holds it.
C19_FullPeriod ==
    (rot.names # <<>> /\ rot.calls = Len(rot.names)) =>
        /\ rot.idx = rot.start % Len(rot.names)
        /\ rot.start < Len(rot.names) => rot.idx = rot.start
        /\ Len(rot.log) = rot.count * Len(rot.names)
        /\ \A x \in Range(rot.names) :
              Occurrences(rot.log, x) = rot.count * Occurrences(rot.names, x)

\* three names taken two at a time from position 1: three calls later the
\* cursor is back at 1 and each name was selected twice
C19_Witness ==
    /\ rot.names = <<"A", "B", "C">>
    /\ rot.count = 2
    /\ rot.start = 1
    /\ rot.calls = 3
    /\ rot.idx = 1
    /\ rot.log = <<"B", "C", "A", "B", "C", "A">>

\* --------------------------------------------------- bump_one on its own
\* a pool, the selection whose first name is to be replaced (a name of the
\* pool: names_pool.index raises on any other) and the names to avoid
BumpInputs ==
    {[name_list |-> nl, pool |-> pool, avoid |-> av] :
        nl \in UNION {[1..n -> Names] : n \in 1..2}, pool \in Rosters, av \in SUBSET Names}

InitBump ==
    /\ SysIdle
    /\ rot = RotIdle
    /\ cmp = CmpIdle
    /\ mode = ModeIdle
    /\ \E in \in BumpInputs :
          /\ in.pool # <<>> => in.name_list[1] \in Range(in.pool)
          /\ bmp = [BmpIdle EXCEPT !.name_list = in.name_list, !.pool = in.pool,
                                    !.avoid = in.avoid]

\* bump_one(name_list, names_pool, avoid_set)
Bump ==
    /\ ~bmp.called
    /\ bmp' = [bmp EXCEPT !.called = TRUE,
                          !.ret = bump_one(bmp.name_list, bmp.pool, bmp.avoid)]
    /\ UNCHANGED <<sysvars, rot, cmp, mode>>

NextBump == Bump

SpecBump == InitBump /\ [][NextBump]_vars

\* the L-1 names that follow position p of the pool, wrapping past its end
Following(pool, p) == [s \in 1..(Len(pool) - 1) |-> pool[((p + s) % Len(pool)) + 1]]

\* C15: for a conflicting name whose (first) position in a roster of length L
\* is p, bump_one returns the first of roster[p+1], roster[p+2], ... (wrapping,
\* L-1 candidates, position p itself not among them) that is neither in the
\* avoid-set nor in the current selection, and returns the conflicting name
\* itself when there is no such candidate.
C15_BumpScan ==
    (bmp.called /\ bmp.pool # <<>>) =>
        LET name == bmp.name_list[1]
            cands == Following(bmp.pool, index(bmp.pool, name))
            free == {s \in DOMAIN cands :
                       cands[s] \notin bmp.avoid /\ cands[s] \notin Range(bmp.name_list)}
        IN  IF free = {}
            THEN bmp.ret = name
            ELSE \E s \in free :
                    /\ bmp.ret = cands[s]
                    /\ \A u \in 1..(s - 1) : u \notin free

\* from the last position the scan wraps to the head, skips the avoided name
\* and returns the one after it
C15_Witness ==
    /\ bmp.called
    /\ bmp.pool = <<"A", "B", "C">>
    /\ bmp.name_list = <<"C">>
    /\ bmp.avoid = {"A"}
    /\ bmp.ret = "B"

\* ------------------------------------------- compose_message on its own
Overrides == {None, "special", "normal"}
Base == <<"A", "B", "C">>
\* a first Monday of an odd month, the same day of an even month, a Tuesday
SampleDates == {[month |-> 3, day |-> 4, weekday |-> 0],
                [month |-> 4, day |-> 4, weekday |-> 0],
                [month |-> 3, day |-> 4, weekday |-> 1]}

\* the CSV files and state.json of one call: the rosters of one conflict rule
\* in full with the other roles on Base, or any roles' files empty or missing,
\* or any cursors at or beyond the rosters' end
ComposeInputs ==
    {[rosters |-> [k \in Roles |-> IF k = "hymn" THEN h ELSE IF k = "bread_bro" THEN b ELSE Base],
      state |-> [indexes |-> [k \in Roles |-> IF k = "bread_bro" THEN c ELSE 0],
                 override |-> None]] :
        h \in {r \in Rosters : Len(r) <= 2}, b \in Rosters, c \in 0..MaxCursor}
    \cup
    {[rosters |-> [k \in Roles |-> IF k = "sharing" THEN s ELSE IF k = "topic" THEN t ELSE Base],
      state |-> [indexes |-> [k \in Roles |-> IF k = "sharing" THEN c ELSE 0],
                 override |-> None]] :
        t \in {r \in Rosters : Len(r) <= 1}, s \in Rosters, c \in 0..MaxCursor}
    \cup
    {[rosters |-> [k \in Roles |-> IF k = "pianist" THEN r ELSE Base],
      state |-> [indexes |-> [k \in Roles |-> IF k = "pianist" THEN c ELSE 0],
                 override |-> o]] :
        r \in Rosters, c \in 0..MaxCursor, o \in Overrides}
    \cup
    {[rosters |-> [k \in Roles |-> IF k \in E THEN <<>> ELSE Base],
      state |-> [indexes |-> [k \in Roles |-> c], override |-> o]] :
        E \in SUBSET Roles, c \in 0..MaxCursor, o \in Overrides}
    \cup
    {[rosters |-> [k \in Roles |-> Base],
      state |-> [indexes |-> [k \in Roles |-> IF k \in E THEN MaxCursor ELSE 1], override |-> o]] :
        E \in SUBSET Roles, o \in Overrides}

InitCompose ==
    /\ \E in \in ComposeInputs, d \in SampleDates :
          /\ rosters = in.rosters
          /\ today = d
          /\ cmp = [CmpIdle EXCEPT !.state = in.state]
    /\ stateFile = StateAbsent
    /\ thisWeekFile = WeekAbsent
    /\ pc = [t \in {"main", "sched"} |-> "off"]
    /\ st = [t \in {"main", "sched"} |-> DEFAULT_STATE]
    /\ msg = [t \in {"main", "sched"} |-> <<>>]
    /\ runs = 0
    /\ io = [t \in {"main", "sched"} |-> <<>>]
    /\ done = 0
    /\ state0 = StateAbsent
    /\ rot = RotIdle
    /\ mode = ModeIdle
    /\ bmp = BmpIdle
    /\ web = WebIdle

\* message, new_state = compose_message(state, advance)
Compose ==
    /\ ~cmp.called
    /\ \E adv \in BOOLEAN :
          cmp' = [cmp EXCEPT !.called = TRUE, !.advance = adv,
                             !.out = compose_message(cmp.state, adv)]
    /\ UNCHANGED <<sysvars, rot, mode, bmp>>

NextCompose == Compose

SpecCompose == InitCompose /\ [][NextCompose]_vars

\* the selections compose_message makes before resolve_duplicates
Raw(key) == get_list_with_advance(key, cmp.state, FALSE).picked

\* bread_bro as slot i of the loop sees it: the slots before i already resolved
BroAt(i) ==
    [j \in 1..Len(Raw("bread_bro")) |->
        IF j < i THEN cmp.out.sel.bread_bro[j] ELSE Raw("bread_bro")[j]]

\* C3 as stated: after compose_message no name is both in the hymn selection
\* and in the bread-brothers selection.
C3_Original ==
    (cmp.called /\ ~cmp.out.err /\ ~is_special_week(cmp.state)) =>
        Range(cmp.out.msg[1].value) \cap Range(cmp.out.msg[2].value) = {}

\* C3 as amended: after compose_message a bread-brothers slot holds a hymn pick
\* only when the bread-brothers roster has no name outside the hymn selection
\* and the bread-brothers selection as it stood when the slot was examined (the
\* pick is then kept); hence no name is in both selections when the roster has
\* two names outside the hymn selection.  The normal text shows these selections.
C3_NoSharedUnlessNoSubstitute ==
    cmp.called =>
        LET hymn == cmp.out.sel.hymn
            bro == cmp.out.sel.bread_bro
        IN  /\ Len(bro) = Len(Raw("bread_bro"))
            /\ \A i \in 1..Len(bro) :
                  bro[i] \in Range(hymn) <=>
                      /\ Raw("bread_bro")[i] \in Range(hymn)
                      /\ Range(rosters["bread_bro"]) \subseteq (Range(hymn) \cup Range(BroAt(i)))
            /\ Cardinality(Range(rosters["bread_bro"]) \ Range(hymn)) >= 2 =>
                  Range(hymn) \cap Range(bro) = {}
            /\ (~cmp.out.err /\ ~is_special_week(cmp.state)) =>
                  /\ cmp.out.msg[1].value = hymn
                  /\ cmp.out.msg[2].value = bro

\* a bread-brothers pick was a hymn pick and was replaced by a third name
C3_Witness ==
    /\ cmp.called
    /\ ~is_special_week(cmp.state)
    /\ Len(Raw("bread_bro")) = 2
    /\ Raw("bread_bro")[1] \in Range(cmp.out.sel.hymn)
    /\ Raw("bread_bro")[2] \notin Range(cmp.out.sel.hymn)
    /\ Len(cmp.out.sel.bread_bro) = 2
    /\ Range(cmp.out.sel.hymn) \cap Range(cmp.out.sel.bread_bro) = {}

\* C4 as stated: two pianist slots hold different names, except that with a
\* pianist roster of length 1 both hold the same name.
C4_Original ==
    (cmp.called /\ Len(cmp.out.sel.pianist) = 2 /\ ~is_special_week(cmp.state)) =>
        IF Len(rosters["pianist"]) = 1
        THEN cmp.out.sel.pianist[1] = cmp.out.sel.pianist[2]
        ELSE cmp.out.sel.pianist[1] # cmp.out.sel.pianist[2]

\* C4 as amended: two pianist slots hold different names, except that with a
\* pianist roster of only one distinct name (of length 1, or the same name
\* listed again) both hold that name; the first slot is never changed.
C4_PianistsDiffer ==
    (cmp.called /\ Len(cmp.out.sel.pianist) = 2) =>
        /\ cmp.out.sel.pianist[1] = Raw("pianist")[1]
        /\ IF Cardinality(Range(rosters["pianist"])) = 1
           THEN cmp.out.sel.pianist[1] = cmp.out.sel.pianist[2]
           ELSE cmp.out.sel.pianist[1] # cmp.out.sel.pianist[2]
        /\ (~cmp.out.err /\ ~is_special_week(cmp.state)) =>
              cmp.out.msg[6].value = <<"(Sat)", cmp.out.sel.pianist[1],
                                       "(Sun)", cmp.out.sel.pianist[2]>>

\* both slots selected the same name and the second was replaced
C4_Witness ==
    /\ cmp.called
    /\ Len(Raw("pianist")) = 2
    /\ Raw("pianist")[1] = Raw("pianist")[2]
    /\ cmp.out.sel.pianist[1] # cmp.out.sel.pianist[2]

\* C7: compose_message(state, advance=false) returns the cursors and the
\* override of its input state, and the text and selections that advance=true
\* gives from that state.
C7_NoAdvanceKeepsState ==
    (cmp.called /\ ~cmp.advance) =>
        /\ cmp.out.state.indexes = cmp.state.indexes
        /\ cmp.out.state.override = cmp.state.override
        /\ cmp.out.msg = compose_message(cmp.state, TRUE).msg
        /\ cmp.out.sel = compose_message(cmp.state, TRUE).sel
        /\ cmp.out.err = compose_message(cmp.state, TRUE).err

\* a call with advance=false from a state whose cursors advance=true moves
C7_Witness ==
    /\ cmp.called
    /\ ~cmp.advance
    /\ cmp.out.msg # <<>>
    /\ \A k \in Roles :
          compose_message(cmp.state, TRUE).state.indexes[k] # cmp.state.indexes[k]

\* C10: whichever roles have an empty or missing roster, compose_message ends
\* without error, leaves those roles' cursors as they were, and in normal mode
\* the text has the eight labels in their order, with an empty value for each
\* such role.
C10_EmptyRosterDegrades ==
    cmp.called =>
        /\ ~cmp.out.err
        /\ \A k \in Roles :
              rosters[k] = <<>> => cmp.out.state.indexes[k] = cmp.state.indexes[k]
        /\ ~is_special_week(cmp.state) =>
              /\ Len(cmp.out.msg) = 8
              /\ \A i \in 1..8 :
                    /\ cmp.out.msg[i].label = LABELS[i]
                    /\ rosters[KEYS[i]] = <<>> => cmp.out.msg[i].value = <<>>
                    /\ rosters[KEYS[i]] # <<>> => cmp.out.msg[i].value # <<>>

\* an advancing normal-mode call with no baking roster and no pianist roster
C10_Witness ==
    /\ cmp.called
    /\ cmp.advance
    /\ ~is_special_week(cmp.state)
    /\ rosters["baking"] = <<>>
    /\ rosters["pianist"] = <<>>
    /\ rosters["hymn"] # <<>>
    /\ cmp.state.indexes["baking"] > 0
    /\ cmp.out.msg[4] = [label |-> LABELS[4], value |-> <<>>]

\* C16: the cursors an advancing compose_message returns are (cursor + count)
\* mod L for every role with a non-empty roster, whether or not a conflict rule
\* replaced a name, so the next cycle's raw selection of each role is the one
\* that follows this cycle's raw selection.
C16_SubstitutionKeepsCursor ==
    (cmp.called /\ cmp.advance) =>
        \A k \in Roles :
            rosters[k] # <<>> =>
                LET L == Len(rosters[k])
                    n == LIST_CONFIG[k].count
                    c == cmp.state.indexes[k]
                IN  /\ cmp.out.state.indexes[k] = (c + n) % L
                    /\ get_list_with_advance(k, cmp.out.state, FALSE).picked
                          = [i \in 1..n |-> rosters[k][((c + n + i - 1) % L) + 1]]

\* rule 2 replaced the sharing name and the sharing cursor moved by its count
C16_Witness ==
    /\ cmp.called
    /\ cmp.advance
    /\ rosters["sharing"] = <<"A", "B", "C">>
    /\ cmp.state.indexes["sharing"] = 0
    /\ Raw("sharing") = <<"A">>
    /\ cmp.out.sel.topic = <<"A">>
    /\ cmp.out.sel.sharing = <<"B">>
    /\ cmp.out.state.indexes["sharing"] = 1

\* C17: compose_message leaves the topic name as selected; when sharing and
\* topic each select a name, the sharing name that is rendered differs from
\* the topic name whenever the sharing roster holds a name other than the
\* topic name, and a sharing name that differed already is kept.
C17_SharingAvoidsTopic ==
    cmp.called =>
        LET sh == cmp.out.sel.sharing
            tp == cmp.out.sel.topic
        IN  /\ tp = Raw("topic")
            /\ (Raw("sharing") # <<>> /\ tp # <<>>) =>
                  /\ Len(sh) = 1
                  /\ (\E x \in Range(rosters["sharing"]) : x # tp[1]) => sh[1] # tp[1]
                  /\ Raw("sharing")[1] # tp[1] => sh = Raw("sharing")
                  /\ ~cmp.out.err
                  /\ IF is_special_week(cmp.state)
                     THEN cmp.out.msg[1] = [label |-> LABELS[5], value |-> <<sh[1]>>]
                     ELSE /\ cmp.out.msg[5] = [label |-> LABELS[5], value |-> <<sh[1]>>]
                          /\ cmp.out.msg[7] = [label |-> LABELS[7], value |-> <<tp[1]>>]

\* sharing and topic both select A, the sharing roster also holds B: the
\* message has sharing B and topic A
C17_Witness ==
    /\ cmp.called
    /\ ~is_special_week(cmp.state)
    /\ Raw("sharing") = <<"A">>
    /\ Raw("topic") = <<"A">>
    /\ rosters["sharing"] = <<"A", "B">>
    /\ cmp.out.msg[5].value = <<"B">>
    /\ cmp.out.msg[7].value = <<"A">>

\* C18: a bread-brothers slot that resolve_duplicates replaces with a different
\* name receives a name that is not in the hymn selection and is not the name
\* in the other slot at that moment; so two distinct bread-brothers names are
\* still two distinct names after the resolution.
C18_NoNewCollision ==
    cmp.called =>
        LET bb == cmp.out.sel.bread_bro
            raw == Raw("bread_bro")
        IN  /\ Len(bb) = Len(raw)
            /\ \A i \in DOMAIN raw :
                  bb[i] # raw[i] =>
                      /\ bb[i] \notin Range(cmp.out.sel.hymn)
                      /\ \A j \in DOMAIN raw \ {i} : bb[i] # BroAt(i)[j]
            /\ (Len(raw) = 2 /\ raw[1] # raw[2]) => bb[1] # bb[2]

\* hymn A with bread-brothers A, B selected from A, B, C: the first slot
\* becomes C, which is neither the hymn name nor the second slot's B
C18_Witness ==
    /\ cmp.called
    /\ Range(cmp.out.sel.hymn) = {"A"}
    /\ rosters["bread_bro"] = <<"A", "B", "C">>
    /\ Raw("bread_bro") = <<"A", "B">>
    /\ cmp.out.sel.bread_bro = <<"C", "B">>

\* C20: every name in a role's final selection, after resolve_duplicates, is a
\* name of that role's own roster: a substitute is never a name that only
\* another roster holds and never None.
C20_WithinRoster ==
    cmp.called =>
        \A k \in Roles :
            \A i \in DOMAIN cmp.out.sel[k] :
                /\ cmp.out.sel[k][i] \in Range(rosters[k])
                /\ cmp.out.sel[k][i] # None

\* the bread-brothers roster holds only A and B, the hymn roster holds C: the
\* substitute for A is B and the slot that finds no substitute keeps A
C20_Witness ==
    /\ cmp.called
    /\ rosters["bread_bro"] = <<"A", "A", "B">>
    /\ rosters["hymn"] = <<"A", "C">>
    /\ Raw("bread_bro") = <<"A", "A">>
    /\ cmp.out.sel.bread_bro = <<"B", "A">>

\* ------------------------------------------- is_special_week on its own
DaysIn(m) == IF m = 2 THEN 29 ELSE IF m \in {4, 6, 9, 11} THEN 30 ELSE 31
Dates == {d \in [month : 1..12, day : 1..31, weekday : 0..6] : d.day <= DaysIn(d.month)}

\* the date after midnight (a February of 28 or of 29 days)
NextDays(d) ==
    {[month |-> IF d.day = n THEN (d.month % 12) + 1 ELSE d.month,
      day |-> IF d.day = n THEN 1 ELSE d.day + 1,
      weekday |-> (d.weekday + 1) % 7] :
        n \in IF d.month = 2 THEN {k \in {28, 29} : d.day <= k} ELSE {DaysIn(d.month)}}

InitMode ==
    /\ rosters = [k \in Roles |-> <<>>]
    /\ today \in Dates
    /\ \E o \in Overrides :
          mode = [ModeIdle EXCEPT !.state = [DEFAULT_STATE EXCEPT !.override = o]]
    /\ stateFile = StateAbsent
    /\ thisWeekFile = WeekAbsent
    /\ pc = [t \in {"main", "sched"} |-> "off"]
    /\ st = [t \in {"main", "sched"} |-> DEFAULT_STATE]
    /\ msg = [t \in {"main", "sched"} |-> <<>>]
    /\ runs = 0
    /\ io = [t \in {"main", "sched"} |-> <<>>]
    /\ done = 0
    /\ state0 = StateAbsent
    /\ rot = RotIdle
    /\ cmp = CmpIdle
    /\ bmp = BmpIdle
    /\ web = WebIdle

\* is_special_week(state) at the current date, as the '!status' branch of
\* handle_message calls it on the state it loaded; prev is the call before
ModeQuery ==
    /\ mode' = [mode EXCEPT !.called = TRUE, !.at = today, !.ret = is_special_week(mode.state),
                            !.prev = [called |-> mode.called, at |-> mode.at, ret |-> mode.ret]]
    /\ UNCHANGED <<sysvars, rot, cmp, bmp>>

\* midnight passes
ModeTick ==
    /\ mode.ticks < MaxTicks
    /\ today' \in NextDays(today)
    /\ mode' = [mode EXCEPT !.ticks = @ + 1]
    /\ UNCHANGED <<rosters, stateFile, thisWeekFile, pc, st, msg, runs, io, done, state0, rot, cmp, bmp, web>>

NextMode == ModeQuery \/ ModeTick

SpecMode == InitMode /\ [][NextMode]_vars

\* C5: is_special_week is true whenever override is 'special' and false
\* whenever it is 'normal', at every date; with override unset it is true
\* exactly on a Monday among the first seven days of January, March, May, July,
\* September or November.
C5_SpecialWeek ==
    mode.called =>
        /\ mode.state.override = "special" => mode.ret
        /\ mode.state.override = "normal" => ~mode.ret
        /\ mode.state.override = None =>
              (mode.ret <=> /\ mode.at.month \in {1, 3, 5, 7, 9, 11}
                            /\ mode.at.day \in 1..7
                            /\ mode.at.weekday = 0)

\* Monday 4 March with no override: special
C5_Witness ==
    /\ mode.called
    /\ mode.state.override = None
    /\ mode.at = [month |-> 3, day |-> 4, weekday |-> 0]
    /\ mode.ret

\* C11 as stated: two status queries in a row, with no cycle between them,
\* return the same mode.
C11_Original ==
    (mode.called /\ mode.prev.called) => mode.ret = mode.prev.ret

\* C11: two status queries in a row, with no cycle between them, return the
\* same mode when the override is 'special' or 'normal', and when the date is
\* the same at both; with the override unset and midnight between them they
\* differ exactly when one of the two dates is a first Monday of an odd month
\* and the other is not.
C11_SameModeUntilMidnight ==
    (mode.called /\ mode.prev.called) =>
        /\ mode.state.override # None => mode.ret = mode.prev.ret
        /\ mode.at = mode.prev.at => mode.ret = mode.prev.ret
        /\ mode.state.override = None =>
              (mode.ret # mode.prev.ret <=>
                  is_first_monday_odd_month(mode.at) # is_first_monday_odd_month(mode.prev.at))

\* a query on Monday 4 March and the next one after midnight, override
\* 'normal': both answer normal
C11_Witness ==
    /\ mode.called
    /\ mode.prev.called
    /\ mode.state.override = "normal"
    /\ mode.prev.at = [month |-> 3, day |-> 4, weekday |-> 0]
    /\ mode.at = [month |-> 3, day |-> 5, weekday |-> 1]
    /\ ~mode.ret
    /\ ~mode.prev.ret

\* --------------------------------------------------- the running process
\* Two threads run weekly_job: the scheduler thread (start_scheduler, every
\* Monday 09:00) and the main thread (once at start-up, when this_week.json
\* does not exist).  Nothing in main.py orders them: every read and write of a
\* file is a step of its own.
Threads == {"main", "sched"}
InJob == {"load", "load_save", "load_read", "compose", "save_state", "save_week", "push", "end"}

\* state.json as a run wrote it, on any of the cursors
SavedStates ==
    {[indexes |-> [k \in Roles |-> c], override |-> o] : c \in 0..MaxCursor, o \in Overrides}

Init ==
    /\ \E n \in 0..3 : rosters = [k \in Roles |-> SubSeq(Base, 1, n)]
    /\ today \in SampleDates
    /\ stateFile \in {StateAbsent, StateCorrupt} \cup {StateOk(s) : s \in SavedStates}
    /\ state0 = stateFile
    /\ thisWeekFile \in {WeekAbsent, WeekOk(<<>>)}
    /\ pc = [t \in Threads |-> IF t = "main" THEN "check" ELSE "wait"]
    /\ st = [t \in Threads |-> DEFAULT_STATE]
    /\ msg = [t \in Threads |-> <<>>]
    /\ runs = 0
    /\ io = [t \in Threads |-> <<>>]
    /\ done = 0
    /\ rot = RotIdle
    /\ cmp = CmpIdle
    /\ mode = ModeIdle
    /\ bmp = BmpIdle
    /\ web = WebIdle

\* an exception that leaves the main thread ends the process; one that leaves
\* the scheduler thread ends that thread
Alive == pc["main"] # "load_error"

\* if not THIS_WEEK_FILE.exists(): weekly_job(); then app.run
MainCheck ==
    /\ pc["main"] = "check"
    /\ pc' = [pc EXCEPT !["main"] = IF thisWeekFile.kind = "absent" THEN "load" ELSE "serve"]
    /\ io' = [io EXCEPT !["main"] = <<>>]
    /\ UNCHANGED <<rosters, today, stateFile, thisWeekFile, st, msg, runs, done, state0, rot, cmp, mode, bmp, web>>

\* schedule.run_pending() on a Monday at 09:00
SchedFire ==
    /\ Alive
    /\ pc["sched"] = "wait"
    /\ runs < MaxRuns
    /\ runs' = runs + 1
    /\ pc' = [pc EXCEPT !["sched"] = "load"]
    /\ io' = [io EXCEPT !["sched"] = <<>>]
    /\ UNCHANGED <<rosters, today, stateFile, thisWeekFile, st, msg, done, state0, rot, cmp, mode, bmp, web>>

\* load_state: if not STATE_FILE.exists()
LoadExists(t) ==
    /\ Alive
    /\ pc[t] = "load"
    /\ pc' = [pc EXCEPT ![t] = IF stateFile.kind = "absent" THEN "load_save" ELSE "load_read"]
    /\ UNCHANGED <<rosters, today, stateFile, thisWeekFile, st, msg, runs, io, done, state0, rot, cmp, mode, bmp, web>>

\* load_state: save_state(DEFAULT_STATE)
LoadSaveDefault(t) ==
    /\ Alive
    /\ pc[t] = "load_save"
    /\ stateFile' = StateOk(DEFAULT_STATE)
    /\ io' = [io EXCEPT ![t] = Append(@, "save_default")]
    /\ pc' = [pc EXCEPT ![t] = "load_read"]
    /\ UNCHANGED <<rosters, today, thisWeekFile, st, msg, runs, done, state0, rot, cmp, mode, bmp, web>>

\* load_state: return json.loads(STATE_FILE.read_text()); json.loads raises on
\* a text that is no JSON, and nothing catches it
LoadRead(t) ==
    /\ Alive
    /\ pc[t] = "load_read"
    /\ IF stateFile.kind = "corrupt"
       THEN /\ pc' = [pc EXCEPT ![t] = "load_error"]
            /\ st' = st
       ELSE /\ pc' = [pc EXCEPT ![t] = "compose"]
            /\ st' = [st EXCEPT ![t] = stateFile.state]
    /\ UNCHANGED <<rosters, today, stateFile, thisWeekFile, msg, runs, io, done, state0, rot, cmp, mode, bmp, web>>

\* message, new_state = compose_message(state, advance=True)
JobCompose(t) ==
    /\ Alive
    /\ pc[t] = "compose"
    /\ LET out == compose_message(st[t], TRUE)
       IN  /\ st' = [st EXCEPT ![t] = out.state]
           /\ msg' = [msg EXCEPT ![t] = out.msg]
           /\ pc' = [pc EXCEPT ![t] = IF out.err THEN "compose_error" ELSE "save_state"]
    /\ UNCHANGED <<rosters, today, stateFile, thisWeekFile, runs, io, done, state0, rot, cmp, mode, bmp, web>>

\* save_state(new_state)
SaveState(t) ==
    /\ Alive
    /\ pc[t] = "save_state"
    /\ stateFile' = StateOk(st[t])
    /\ io' = [io EXCEPT ![t] = Append(@, "save_state")]
    /\ pc' = [pc EXCEPT ![t] = "save_week"]
    /\ UNCHANGED <<rosters, today, thisWeekFile, st, msg, runs, done, state0, rot, cmp, mode, bmp, web>>

\* save_this_week({"text": message})
SaveThisWeek(t) ==
    /\ Alive
    /\ pc[t] = "save_week"
    /\ thisWeekFile' = WeekOk(msg[t])
    /\ io' = [io EXCEPT ![t] = Append(@, "save_this_week")]
    /\ pc' = [pc EXCEPT ![t] = "push"]
    /\ UNCHANGED <<rosters, today, stateFile, st, msg, runs, done, state0, rot, cmp, mode, bmp, web>>

\* push_message returns: the else branch prints and weekly_job ends
PushOk(t) ==
    /\ Alive
    /\ pc[t] = "push"
    /\ io' = [io EXCEPT ![t] = Append(@, "push_ok")]
    /\ pc' = [pc EXCEPT ![t] = "end"]
    /\ UNCHANGED <<rosters, today, stateFile, thisWeekFile, st, msg, runs, done, state0, rot, cmp, mode, bmp, web>>

\* the job is run again after a failed push
PushFailRerun(t) ==
    /\ Alive
    /\ pc[t] = "push"
    /\ io' = [io EXCEPT ![t] = Append(@, "push_failed")]
    /\ pc' = [pc EXCEPT ![t] = "load"]
    /\ UNCHANGED <<rosters, today, stateFile, thisWeekFile, st, msg, runs, done, state0, rot, cmp, mode, bmp, web>>

\* push_message raises: the except branch prints and weekly_job ends
PushFail(t) ==
    /\ Alive
    /\ pc[t] = "push"
    /\ io' = [io EXCEPT ![t] = Append(@, "push_failed")]
    /\ pc' = [pc EXCEPT ![t] = "end"]
    /\ UNCHANGED <<rosters, today, stateFile, thisWeekFile, st, msg, runs, done, state0, rot, cmp, mode, bmp, web>>

\* weekly_job returns: the main thread goes on to app.run, the scheduler
\* thread back to its loop
JobEnd(t) ==
    /\ Alive
    /\ pc[t] = "end"
    /\ done' = done + 1
    /\ pc' = [pc EXCEPT ![t] = IF t = "main" THEN "serve" ELSE "wait"]
    /\ UNCHANGED <<rosters, today, stateFile, thisWeekFile, st, msg, runs, io, state0, rot, cmp, mode, bmp, web>>

Next ==
    \/ MainCheck
    \/ SchedFire
    \/ \E t \in Threads :
          \/ LoadExists(t)
          \/ LoadSaveDefault(t)
          \/ LoadRead(t)
          \/ JobCompose(t)
          \/ SaveState(t)
          \/ SaveThisWeek(t)
          \/ PushOk(t)
          \/ PushFail(t)
          \/ JobEnd(t)

Spec == Init /\ [][Next]_vars

\* ------------------------------------------- the process with its webhook
\* app.run serves the webhook once the main thread is past its start-up job;
\* handle_message runs in a request thread, beside the scheduler thread, and
\* like weekly_job it takes no lock: each file access is a step of its own.
Commands == {"!status", "!resend", "other"}

\* week.get("text", "No schedule") when this_week.json gave no text
NoSchedule == <<[label |-> "No schedule", value |-> <<>>]>>
ModeReply(special) ==
    <<[label |-> "Current mode", value |-> <<IF special THEN "Special" ELSE "Normal">>]>>
Resent == <<[label |-> "Resent.", value |-> <<>>]>>
MoreSoon == <<[label |-> "more commands later", value |-> <<>>]>>

InitWeb ==
    /\ rosters = [k \in Roles |-> SubSeq(Base, 1, 2)]
    /\ today \in {d \in SampleDates : d.month = 3}
    /\ stateFile \in {StateAbsent, StateCorrupt, StateOk(DEFAULT_STATE),
                      StateOk([DEFAULT_STATE EXCEPT !.override = "special"])}
    /\ state0 = stateFile
    /\ thisWeekFile \in {WeekAbsent, WeekOk(<<>>)}
    /\ pc = [t \in Threads |-> IF t = "main" THEN "check" ELSE "wait"]
    /\ st = [t \in Threads |-> DEFAULT_STATE]
    /\ msg = [t \in Threads |-> <<>>]
    /\ runs = 0
    /\ io = [t \in Threads |-> <<>>]
    /\ done = 0
    /\ rot = RotIdle
    /\ cmp = CmpIdle
    /\ mode = ModeIdle
    /\ bmp = BmpIdle
    /\ web = WebIdle

WebFrame ==
    UNCHANGED <<rosters, today, thisWeekFile, pc, st, msg, runs, io, done, state0, rot, cmp, mode, bmp>>

\* a text message arrives: text.startswith("!status"), "!resend", or neither
WebRequest ==
    /\ pc["main"] = "serve"
    /\ web.pc = "idle"
    /\ web.n < MaxQueries
    /\ \E c \in Commands :
          web' = [web EXCEPT !.n = @ + 1, !.cmd = c,
                            !.pc = IF c = "!status" THEN "load"
                                   ELSE IF c = "!resend" THEN "resend_load" ELSE "reply"]
    /\ UNCHANGED stateFile
    /\ WebFrame

\* '!status', load_state: if not STATE_FILE.exists()
WebLoadExists ==
    /\ pc["main"] = "serve"
    /\ web.pc = "load"
    /\ web' = [web EXCEPT !.pc = IF stateFile.kind = "absent" THEN "load_save" ELSE "load_read"]
    /\ UNCHANGED stateFile
    /\ WebFrame

\* '!status', load_state: save_state(DEFAULT_STATE)
WebLoadSaveDefault ==
    /\ pc["main"] = "serve"
    /\ web.pc = "load_save"
    /\ stateFile' = StateOk(DEFAULT_STATE)
    /\ web' = [web EXCEPT !.pc = "load_read"]
    /\ WebFrame

\* '!status', load_state: return json.loads(STATE_FILE.read_text()); the
\* exception json.loads raises ends the request without a reply
WebLoadRead ==
    /\ pc["main"] = "serve"
    /\ web.pc = "load_read"
    /\ web' = IF stateFile.kind = "corrupt"
              THEN [web EXCEPT !.pc = "idle"]
              ELSE [web EXCEPT !.pc = "status_reply", !.state = stateFile.state]
    /\ UNCHANGED stateFile
    /\ WebFrame

\* '!status': reply(f"Current mode: {mode}")
WebStatusReply ==
    /\ pc["main"] = "serve"
    /\ web.pc = "status_reply"
    /\ web' = [web EXCEPT !.pc = "idle",
                          !.sent = Append(@, [to |-> "reply", week |-> WeekAbsent,
                                              text |-> ModeReply(is_special_week(web.state))])]
    /\ UNCHANGED stateFile
    /\ WebFrame

\* '!resend': the schedule is composed anew from the saved state
WebResendCompose ==
    /\ pc["main"] = "serve"
    /\ web.pc = "resend_load"
    /\ web' = [web EXCEPT !.pc = "resend_push",
                          !.week = IF stateFile.kind = "ok"
                                   THEN WeekOk(compose_message(stateFile.state, FALSE).msg)
                                   ELSE WeekAbsent]
    /\ UNCHANGED stateFile
    /\ WebFrame

\* '!resend': week = load_this_week()
WebResendLoad ==
    /\ pc["main"] = "serve"
    /\ web.pc = "resend_load"
    /\ web' = [web EXCEPT !.pc = "resend_push", !.week = thisWeekFile]
    /\ UNCHANGED stateFile
    /\ WebFrame

\* '!resend': msg = week.get("text", "No schedule"); push(msg) returns
WebResendPush ==
    /\ pc["main"] = "serve"
    /\ web.pc = "resend_push"
    /\ web' = [web EXCEPT !.pc = "resend_reply",
                          !.sent = Append(@, [to |-> "push", week |-> web.week,
                                              text |-> IF web.week.kind = "ok"
                                                       THEN web.week.text ELSE NoSchedule])]
    /\ UNCHANGED stateFile
    /\ WebFrame

\* '!resend': push(msg) raises, which ends the request without a reply
WebResendPushFail ==
    /\ pc["main"] = "serve"
    /\ web.pc = "resend_push"
    /\ web' = [web EXCEPT !.pc = "idle"]
    /\ UNCHANGED stateFile
    /\ WebFrame

\* '!resend': reply("Resent.")
WebResendReply ==
    /\ pc["main"] = "serve"
    /\ web.pc = "resend_reply"
    /\ web' = [web EXCEPT !.pc = "idle",
                          !.sent = Append(@, [to |-> "reply", week |-> WeekAbsent, text |-> Resent])]
    /\ UNCHANGED stateFile
    /\ WebFrame

\* any other text: the fixed reply
WebReplyOther ==
    /\ pc["main"] = "serve"
    /\ web.pc = "reply"
    /\ web' = [web EXCEPT !.pc = "idle",
                          !.sent = Append(@, [to |-> "reply", week |-> WeekAbsent, text |-> MoreSoon])]
    /\ UNCHANGED stateFile
    /\ WebFrame

NextWeb ==
    \/ Next
    \/ WebRequest
    \/ WebLoadExists
    \/ WebLoadSaveDefault
    \/ WebLoadRead
    \/ WebStatusReply
    \/ WebResendLoad
    \/ WebResendPush
    \/ WebResendPushFail
    \/ WebResendReply
    \/ WebReplyOther

SpecWeb == InitWeb /\ [][NextWeb]_vars

\* the cursors in state.json when the process started (a missing file counts
\* as the default state)
Cursor0(k) == state0.state.indexes[k]

Quiet == \A t \in Threads : pc[t] \in {"check", "wait", "serve"}

\* C6: the runs of weekly_job are serialized between load_state and
\* save_state, so that once k >= 1 runs have ended and none is under way, the
\* saved cursor of every role with a roster of length L >= 1 and count n is
\* (c0 + k*n) mod L: no advance is lost or applied twice.
C6_NoLostAdvance ==
    (Quiet /\ done >= 1) =>
        \A k \in Roles :
            rosters[k] # <<>> =>
                stateFile.state.indexes[k] =
                    (Cursor0(k) + done * LIST_CONFIG[k].count) % Len(rosters[k])

\* the file writes and the push a weekly_job makes, in their order
JobTrace == <<"save_state", "save_this_week", "push">>
IoKind(e) == IF e \in {"push_ok", "push_failed"} THEN "push" ELSE e
Effects(t) == SelectSeq(io[t], LAMBDA e : e # "save_default")

\* C8: in every run of weekly_job the new state, then the snapshot, are saved
\* before the push is attempted; a failing push changes neither file, is the
\* only push of the run, and the run ends after it.
C8_DeliveryFailure ==
    /\ [](\A t \in Threads :
            /\ Len(Effects(t)) <= 3
            /\ \A i \in 1..Len(Effects(t)) : IoKind(Effects(t)[i]) = JobTrace[i]
            /\ pc[t] = "push" => Len(Effects(t)) = 2)
    /\ [][\A t \in Threads :
            /\ (pc[t] = "save_state" /\ pc'[t] # pc[t]) =>
                  (stateFile' = StateOk(st[t]) /\ pc'[t] = "save_week")
            /\ (pc[t] = "save_week" /\ pc'[t] # pc[t]) =>
                  (thisWeekFile' = WeekOk(msg[t]) /\ pc'[t] = "push")
            /\ (pc[t] = "push" /\ pc'[t] # pc[t]) =>
                  /\ stateFile' = stateFile
                  /\ thisWeekFile' = thisWeekFile
                  /\ st' = st
                  /\ pc'[t] = "end"
            /\ (pc[t] = "end" /\ pc'[t] # pc[t]) =>
                  (pc'[t] \in {"serve", "wait"} /\ stateFile' = stateFile
                   /\ thisWeekFile' = thisWeekFile)]_vars

\* the scheduler's run ended after a failed push, with the files as it wrote them
C8_Witness ==
    /\ pc["sched"] = "end"
    /\ io["sched"] = <<"save_state", "save_this_week", "push_failed">>
    /\ stateFile = StateOk(st["sched"])
    /\ stateFile.state # state0.state
    /\ thisWeekFile = WeekOk(msg["sched"])

\* C9: load_state on a state file that holds no valid state returns the
\* default state and its caller goes on, as with no state file: no thread is
\* stopped by load_state, and a thread that read a corrupt file composes from
\* the default state.
C9_CorruptIsAbsent ==
    /\ \A t \in Threads : pc[t] # "load_error"
    /\ \A t \in Threads :
          (pc[t] = "compose" /\ stateFile.kind = "corrupt") => st[t] = DEFAULT_STATE

\* C12: under every interleaving with a running cycle, a step of the '!status'
\* or '!resend' handler leaves a saved state file as it is: it advances no
\* cursor, changes no override and never writes over a state that a cycle has
\* saved, also when there was no state file when the query started.
C12_QueriesLeaveState ==
    [][(web' # web /\ stateFile.kind = "ok") => stateFile' = stateFile]_vars

\* C13: what a '!resend' pushes is the text of this_week.json as its
\* load_this_week read it, the text the latest save_this_week of a cycle left
\* there, or the placeholder when the file did not exist; it is never composed
\* for the request, so resends that read the same snapshot push the same text,
\* and no step of the handler changes this_week.json or the state file.
C13_ResendPushesSnapshot ==
    /\ [](\A i \in DOMAIN web.sent :
            web.sent[i].to = "push" =>
                web.sent[i].text = IF web.sent[i].week.kind = "ok"
                                   THEN web.sent[i].week.text ELSE NoSchedule)
    /\ [](\A i, j \in DOMAIN web.sent :
            (web.sent[i].to = "push" /\ web.sent[j].to = "push"
             /\ web.sent[i].week = web.sent[j].week) => web.sent[i].text = web.sent[j].text)
    /\ [][/\ (web.pc = "resend_load" /\ web' # web) =>
              (web'.week = thisWeekFile /\ web'.pc = "resend_push")
          /\ (web.cmd = "!resend" /\ web' # web /\ web.pc # "idle") =>
              (stateFile' = stateFile /\ thisWeekFile' = thisWeekFile)]_vars

\* the scheduler's cycle has saved its snapshot and two resends have pushed it
C13_Witness ==
    /\ Len(web.sent) = 4
    /\ web.sent[1].to = "push"
    /\ web.sent[3].to = "push"
    /\ thisWeekFile = WeekOk(msg["sched"])
    /\ msg["sched"] # <<>>
    /\ web.sent[1].text = msg["sched"]
    /\ web.sent[3].text = msg["sched"]
    /\ done >= 1

====
